---- MODULE Spec2Model ----
(***************************************************************************)
(* Model of simulator/lunar_simulator.py: the LunarTelemetrySimulator      *)
(* driver loop (start / stop / _simulation_loop), the telemetry model      *)
(* (_generate_telemetry) and the frame encoder and transmitter             *)
(* (_pack_telemetry / _send_telemetry).                                    *)
(*                                                                         *)
(* Real numbers are fixed point.  Phases, times, noise and channel values  *)
(* before int() are integers in units of 1/Scale; sines, cosines and the   *)
(* radiation multiplier are integers in units of 1/Fine.  The rounding of  *)
(* IEEE doubles is not modelled.  TLC integers are 32 bits wide, so a u32  *)
(* field can only hold values below 2^31 here.                             *)
(***************************************************************************)
EXTENDS Integers, Sequences, FiniteSets

\* ------------------------------------------------------------- bounds
\* Ticks the loop may begin before exploration stops.
MaxTicks == 4

\* ---------------------------------------------------- program constants
FRAME_START_SYMBOL == 18
TELEMETRY_FRAME == 6
TELEMETRY_FRAME_PAYLOAD_SIZE == 63

\* Fixed-point units.
Scale == 10000
Fine == Scale * Scale

\* Per-tick increments of orbit_phase (0.01) and thermal_cycle (0.05).
ORBIT_STEP == 100
THERMAL_STEP == 500

\* --rate values (Hz) a run may be configured with: argparse takes any float,
\* zero and negative ones included.
Rates == {-1, 0, 1, 2, 4}

\* --scenario choices.
Scenarios == {"nominal", "anomaly", "eclipse"}

\* self.baseline after main() has applied the scenario.
Baseline(scenario) ==
    [ gyro_noise          |-> IF scenario = "anomaly" THEN 3000 ELSE 1000,
      accel_noise         |-> 500,
      mag_noise           |-> 50000,
      temp_variation      |-> IF scenario = "eclipse" THEN 40000 ELSE 20000,
      radiation_base      |-> 1000,
      radiation_variation |-> IF scenario = "anomaly" THEN 1000000 ELSE 500000 ]

\* ------------------------------------------------------------ arithmetic
\* int(x) of the real x / Scale: truncation toward zero.
TruncInt(x) == IF x >= 0 THEN x \div Scale ELSE -((-x) \div Scale)

\* Product of two non-negative reals in units of 1/Fine, in units of 1/Fine
\* (split in two limbs to stay inside 32 bits).
MulFine(a, b) ==
    LET a1 == a \div Scale
        a0 == a % Scale
        b1 == b \div Scale
        b0 == b % Scale
    IN  a1 * b1 + (a1 * b0 + a0 * b1 + (a0 * b0) \div Scale) \div Scale

\* math.sin(x / Scale) in units of 1/Fine, for 0 <= x / Scale < 1.4: Taylor
\* series to the x^11 term.
Sin(x) ==
    LET y   == x * Scale
        y2  == MulFine(y, y)
        t3  == MulFine(y, y2) \div 6
        t5  == MulFine(t3, y2) \div 20
        t7  == MulFine(t5, y2) \div 42
        t9  == MulFine(t7, y2) \div 72
        t11 == MulFine(t9, y2) \div 110
    IN  y - t3 + t5 - t7 + t9 - t11

\* math.cos(x / Scale) in units of 1/Fine, same domain.
Cos(x) ==
    LET y   == x * Scale
        y2  == MulFine(y, y)
        t2  == y2 \div 2
        t4  == MulFine(t2, y2) \div 12
        t6  == MulFine(t4, y2) \div 30
        t8  == MulFine(t6, y2) \div 56
        t10 == MulFine(t8, y2) \div 90
    IN  Fine - t2 + t4 - t6 + t8 - t10

\* k * s for an integer k and a real s in units of 1/Fine; in units of 1/Scale.
Amp(k, s) == k * (s \div Scale) + (k * (s % Scale)) \div Scale

\* random.gauss(mu, sigma) for the draw z (in standard deviations).
Gauss(mu, sigma, z) == mu + sigma * z

\* ------------------------------------------------------- random source
\* One tick's draws from the random module, in call order: z-values of the
\* gauss calls, values of random.random() and random.uniform(0, 255).
Quiet ==
    [ gx |-> 0, gy |-> 0, gz |-> 0, ax |-> 0, ay |-> 0, az |-> 0, ti |-> 0,
      tm |-> 0, d0 |-> 0, d1 |-> 0, d2 |-> 0, tr |-> 0, vdd |-> 0,
      crystal |-> 5000, analog |-> 5000, enc |-> 0, hall |-> 5000,
      refl |-> 5000, light |-> 0 ]

Mixed ==
    [ gx |-> 2, gy |-> -1, gz |-> 3, ax |-> -2, ay |-> 1, az |-> -3, ti |-> 1,
      tm |-> -2, d0 |-> 1, d1 |-> -2, d2 |-> 3, tr |-> -1, vdd |-> 2,
      crystal |-> 50, analog |-> 9000, enc |-> 2549000, hall |-> 9500,
      refl |-> 9700, light |-> -3 ]

\* A far tail of the dose noise: the doses come out negative.
FarTail ==
    [ gx |-> 1, gy |-> 0, gz |-> -1, ax |-> 0, ay |-> 0, az |-> 1, ti |-> 0,
      tm |-> 1, d0 |-> -30, d1 |-> -30, d2 |-> 0, tr |-> 0, vdd |-> -1,
      crystal |-> 9999, analog |-> 20, enc |-> 1275000, hall |-> 100,
      refl |-> 9999, light |-> 2 ]

NoiseDraws == {Quiet, Mixed, FarTail}

\* ------------------------------------------------------ telemetry model
\* radiation_multiplier = 1.0 + 0.3 * sin(orbit_phase * 2), units of 1/Fine.
RadiationMultiplier(op) == Fine + (3 * Sin(2 * op)) \div 10

\* Variant of RdnDose: the multiplier is left out.
RdnDose_NoBelt(k, mult, base, z) ==
    TruncInt(Amp((base.radiation_base * k) \div 10, Fine)
             + Gauss(0, base.radiation_variation, z))

\* int(radiation_base * radiation_multiplier * k/10 + gauss(0, variation)),
\* k = 10, 9, 11 for the serial, sen1 and sen2 dose.
RdnDose(k, mult, base, z) ==
    TruncInt(Amp((base.radiation_base * k) \div 10, mult)
             + Gauss(0, base.radiation_variation, z))

\* int(level + amp * sin(orbit_phase * 3 + shift)).
RdnIntensity(level, amp, shift, op) ==
    TruncInt(level * Scale + Amp(amp, Sin(3 * op + shift)))

\* The six radiation dose and intensity values for a given multiplier.
Radiation(op, mult, base, n) ==
    [ rdn_serial_dose      |-> RdnDose(10, mult, base, n.d0),
      rdn_sen1_dose        |-> RdnDose(9, mult, base, n.d1),
      rdn_sen2_dose        |-> RdnDose(11, mult, base, n.d2),
      rdn_serial_intensity |-> RdnIntensity(100, 20, 0, op),
      rdn_sen1_intensity   |-> RdnIntensity(95, 18, 2000, op),
      rdn_sen2_intensity   |-> RdnIntensity(105, 22, 4000, op) ]

\* _generate_telemetry for orbit_phase op, thermal_cycle tc, baseline base
\* and the random draws n.
GenerateTelemetry(op, tc, base, n) ==
    LET rad == Radiation(op, RadiationMultiplier(op), base, n)
    IN
    [ icm_gyr_x |-> TruncInt(Amp(10, Sin(op)) + Gauss(0, base.gyro_noise, n.gx) * 100),
      icm_gyr_y |-> TruncInt(Amp(8, Cos(op)) + Gauss(0, base.gyro_noise, n.gy) * 100),
      icm_gyr_z |-> TruncInt(Gauss(0, base.gyro_noise, n.gz) * 100),
      icm_acc_x |-> TruncInt(Gauss(0, base.accel_noise, n.ax) * 1000),
      icm_acc_y |-> TruncInt(Gauss(0, base.accel_noise, n.ay) * 1000),
      icm_acc_z |-> TruncInt(Gauss(10, base.accel_noise, n.az) * 1000),
      icm_temp  |-> TruncInt(-10 * Scale + Amp(15, Sin(tc))
                             + Gauss(0, base.temp_variation, n.ti) * 10),
      mmc_mag_x |-> TruncInt(-25000 * Scale + Amp(5000, Sin(op))),
      mmc_mag_y |-> TruncInt(15000 * Scale + Amp(3000, Cos(op))),
      mmc_mag_z |-> TruncInt(45000 * Scale + Amp(2000, Sin((op * 7) \div 10))),
      mmc_temp  |-> TruncInt(-5 * Scale + Amp(10, Sin(tc + 5000))
                             + Gauss(0, base.temp_variation, n.tm) * 10),
      rdn_serial_dose      |-> rad.rdn_serial_dose,
      rdn_sen1_dose        |-> rad.rdn_sen1_dose,
      rdn_sen2_dose        |-> rad.rdn_sen2_dose,
      rdn_serial_intensity |-> rad.rdn_serial_intensity,
      rdn_sen1_intensity   |-> rad.rdn_sen1_intensity,
      rdn_sen2_intensity   |-> rad.rdn_sen2_intensity,
      rdn_temp  |-> TruncInt(20 * Scale + Amp(5, Sin(tc + 10000))
                             + Gauss(0, Scale, n.tr) * 10),
      rdn_vdd   |-> TruncInt(3300 * Scale + Gauss(0, 10 * Scale, n.vdd)),
      rdn_crystal_ok     |-> n.crystal > 100,
      rdn_analog_ok      |-> n.analog > 50,
      encoder_sensor     |-> TruncInt(n.enc),
      hall_endstop       |-> IF n.hall > 9000 THEN 1 ELSE 0,
      reflective_endstop |-> IF n.refl > 9500 THEN 1 ELSE 0,
      light_sensor |-> TruncInt(1000 * Scale + Amp(500, Sin(op))
                                + Gauss(0, 50 * Scale, n.light)) ]

\* ------------------------------------------------------- frame encoder
\* The struct format "<3h 3h h 3i h 6I 2h 2? 3B H" and its arguments, in
\* order.
PackFormat ==
    << <<"icm_gyr_x", "h">>, <<"icm_gyr_y", "h">>, <<"icm_gyr_z", "h">>,
       <<"icm_acc_x", "h">>, <<"icm_acc_y", "h">>, <<"icm_acc_z", "h">>,
       <<"icm_temp", "h">>,
       <<"mmc_mag_x", "i">>, <<"mmc_mag_y", "i">>, <<"mmc_mag_z", "i">>,
       <<"mmc_temp", "h">>,
       <<"rdn_serial_dose", "I">>, <<"rdn_sen1_dose", "I">>, <<"rdn_sen2_dose", "I">>,
       <<"rdn_serial_intensity", "I">>, <<"rdn_sen1_intensity", "I">>,
       <<"rdn_sen2_intensity", "I">>,
       <<"rdn_temp", "h">>, <<"rdn_vdd", "h">>,
       <<"rdn_crystal_ok", "?">>, <<"rdn_analog_ok", "?">>,
       <<"encoder_sensor", "B">>, <<"hall_endstop", "B">>,
       <<"reflective_endstop", "B">>,
       <<"light_sensor", "H">> >>

\* Bytes a format character takes (standard sizes, no padding under "<").
FormatSize(c) == CASE c = "h" -> 2
                   [] c = "H" -> 2
                   [] c = "i" -> 4
                   [] c = "I" -> 4
                   [] c = "B" -> 1
                   [] c = "?" -> 1

\* Whether struct.pack accepts v for format character c (it raises
\* struct.error otherwise).  Every TLC integer is inside the 32-bit bounds.
Packable(c, v) == CASE c = "h" -> v >= -32768 /\ v <= 32767
                    [] c = "H" -> v >= 0 /\ v <= 65535
                    [] c = "i" -> TRUE
                    [] c = "I" -> v >= 0
                    [] c = "B" -> v >= 0 /\ v <= 255
                    [] c = "?" -> TRUE

\* Variant of LittleEndian: most significant byte first.
LittleEndian_BigEndian(v, n) == [k \in 1..n |-> (v \div (256 ^ (n - k))) % 256]

\* The n bytes of the integer v, least significant first, two's complement.
LittleEndian(v, n) == [k \in 1..n |-> (v \div (256 ^ (k - 1))) % 256]

\* One packed field.
PackField(c, v) == IF c = "?"
                   THEN << IF v THEN 1 ELSE 0 >>
                   ELSE LittleEndian(v, FormatSize(c))

RECURSIVE PackFrom(_, _)
PackFrom(data, i) ==
    IF i > Len(PackFormat) THEN << >>
    ELSE PackField(PackFormat[i][2], data[PackFormat[i][1]]) \o PackFrom(data, i + 1)

\* What _pack_telemetry returns: the payload, or None (written << >>: the
\* caller tests "not packed_data", true of None and of nothing else here).
None == << >>

PackTelemetry(data) ==
    IF \A i \in 1..Len(PackFormat) : Packable(PackFormat[i][2], data[PackFormat[i][1]])
    THEN PackFrom(data, 1)
    ELSE None

\* frame = struct.pack('BB', FRAME_START_SYMBOL, TELEMETRY_FRAME) + packed_data
Frame(packed) == << FRAME_START_SYMBOL, TELEMETRY_FRAME >> \o packed

\* No datagram: _send_telemetry returned before sendto.
NoDatagram == << >>

\* Variant of Datagram: the early return is missing, so a failed packing
\* leaves a frame of the header alone.
Datagram_HeaderOnly(data) == Frame(PackTelemetry(data))

\* The datagram _send_telemetry hands to sendto for a sample: none when
\* packing failed.
Datagram(data) ==
    LET packed_data == PackTelemetry(data)
    IN  IF packed_data = None THEN NoDatagram ELSE Frame(packed_data)

\* A sample with every field zero (flags False).
ZeroSample ==
    [ icm_gyr_x |-> 0, icm_gyr_y |-> 0, icm_gyr_z |-> 0,
      icm_acc_x |-> 0, icm_acc_y |-> 0, icm_acc_z |-> 0, icm_temp |-> 0,
      mmc_mag_x |-> 0, mmc_mag_y |-> 0, mmc_mag_z |-> 0, mmc_temp |-> 0,
      rdn_serial_dose |-> 0, rdn_sen1_dose |-> 0, rdn_sen2_dose |-> 0,
      rdn_serial_intensity |-> 0, rdn_sen1_intensity |-> 0,
      rdn_sen2_intensity |-> 0, rdn_temp |-> 0, rdn_vdd |-> 0,
      rdn_crystal_ok |-> FALSE, rdn_analog_ok |-> FALSE,
      encoder_sensor |-> 0, hall_endstop |-> 0, reflective_endstop |-> 0,
      light_sensor |-> 0 ]

\* ---------------------------------------------------------------- state
VARIABLES
    rate,            \* self.rate
    baseline,        \* self.baseline
    running,         \* self.running
    socket,          \* self.socket: "none", "open" or "closed"
    mission_time,    \* self.mission_time, units of 1/Scale s
    orbit_phase,     \* self.orbit_phase, units of 1/Scale rad
    thermal_cycle,   \* self.thermal_cycle, units of 1/Scale rad
    pc,              \* where the main thread stands
    telemetry_data,  \* the local telemetry_data of _simulation_loop
    noise,           \* the random draws telemetry_data was generated from
    wire,            \* the datagram the last _send_telemetry handed to sendto
    outcome,         \* how the last _send_telemetry ended
    generated,       \* calls of _generate_telemetry so far
    send_calls,      \* calls of _send_telemetry so far
    datagrams,       \* datagrams sendto has transmitted so far
    ticks,           \* loop iterations completed so far
    stop_requested,  \* a KeyboardInterrupt or a direct stop() has happened
    stop_ran,        \* stop() has run
    escaped          \* the exception that left _simulation_loop, or "none"

vars == << rate, baseline, running, socket, mission_time, orbit_phase,
           thermal_cycle, pc, telemetry_data, noise, wire, outcome, generated,
           send_calls, datagrams, ticks, stop_requested, stop_ran, escaped >>

\* Positions inside the try block of start(): the while test, the call of
\* _send_telemetry, the three updates, and status print with sleep.
InTick == {"loop", "send", "adv_time", "adv_orbit", "adv_thermal", "sleep"}

\* __init__ followed by main()'s scenario adjustment.
Init ==
    /\ rate \in Rates
    /\ baseline \in {Baseline(sc) : sc \in Scenarios}
    /\ running = FALSE
    /\ socket = "none"
    /\ mission_time = 0
    /\ orbit_phase = 0
    /\ thermal_cycle = 0
    /\ pc = "idle"
    /\ telemetry_data = ZeroSample   \* not yet assigned: generated = 0
    /\ noise = Quiet
    /\ wire = NoDatagram
    /\ outcome = "none"
    /\ generated = 0
    /\ send_calls = 0
    /\ datagrams = 0
    /\ ticks = 0
    /\ stop_requested = FALSE
    /\ stop_ran = FALSE
    /\ escaped = "none"

\* start(), lines 52-53: running := True and the socket is created.
Start ==
    /\ pc = "idle"
    /\ running' = TRUE
    /\ socket' = "open"
    /\ pc' = "banner"
    /\ UNCHANGED << rate, baseline, mission_time, orbit_phase, thermal_cycle,
                    telemetry_data, noise, wire, outcome, generated, send_calls,
                    datagrams, ticks, stop_requested, stop_ran, escaped >>

\* start(), lines 55-61: the banner is printed and the try block entered.
PrintBanner ==
    /\ pc = "banner"
    /\ pc' = "loop"
    /\ UNCHANGED << rate, baseline, running, socket, mission_time, orbit_phase,
                    thermal_cycle, telemetry_data, noise, wire, outcome,
                    generated, send_calls, datagrams, ticks, stop_requested,
                    stop_ran, escaped >>

\* Variant of StopSocket: stop() forgets to close the socket.
StopSocket_LeftOpen == socket

\* stop(): running := False and the socket, if there is one, is closed.
StopSocket == IF socket = "none" THEN "none" ELSE "closed"

\* Variant of GenerateStep: the sample is computed from the phases of after
\* the tick's advance.
GenerateStep_AdvanceFirst ==
    /\ pc = "loop"
    /\ running
    /\ generated < MaxTicks
    /\ \E n \in NoiseDraws :
          /\ noise' = n
          /\ telemetry_data' = GenerateTelemetry(orbit_phase + ORBIT_STEP,
                                   thermal_cycle + THERMAL_STEP, baseline, n)
    /\ generated' = generated + 1
    /\ pc' = "send"
    /\ UNCHANGED << rate, baseline, running, socket, mission_time, orbit_phase,
                    thermal_cycle, wire, outcome, send_calls, datagrams, ticks,
                    stop_requested, stop_ran, escaped >>

\* The while test passes and _generate_telemetry returns a fresh sample.
GenerateStep ==
    /\ pc = "loop"
    /\ running
    /\ generated < MaxTicks
    /\ \E n \in NoiseDraws :
          /\ noise' = n
          /\ telemetry_data' = GenerateTelemetry(orbit_phase, thermal_cycle,
                                                 baseline, n)
    /\ generated' = generated + 1
    /\ pc' = "send"
    /\ UNCHANGED << rate, baseline, running, socket, mission_time, orbit_phase,
                    thermal_cycle, wire, outcome, send_calls, datagrams, ticks,
                    stop_requested, stop_ran, escaped >>

\* _send_telemetry(telemetry_data): pack, frame, sendto.  Both failures are
\* caught inside; sendto raises on a closed socket and may raise on an open
\* one.
SendTelemetry ==
    /\ pc = "send"
    /\ LET frame == Datagram(telemetry_data)
       IN  /\ wire' = frame
           /\ \E delivered \in (IF frame # NoDatagram /\ socket = "open"
                                THEN BOOLEAN ELSE {FALSE}) :
                 /\ outcome' = IF frame = NoDatagram THEN "pack_failed"
                               ELSE IF delivered THEN "sent" ELSE "send_failed"
                 /\ datagrams' = IF delivered THEN datagrams + 1 ELSE datagrams
    /\ send_calls' = send_calls + 1
    /\ pc' = "adv_time"
    /\ UNCHANGED << rate, baseline, running, socket, mission_time, orbit_phase,
                    thermal_cycle, telemetry_data, noise, generated, ticks,
                    stop_requested, stop_ran, escaped >>

\* Variant of AdvanceMissionTime: the two phase updates are skipped.
AdvanceMissionTime_SkipPhases ==
    /\ pc = "adv_time"
    /\ rate # 0
    /\ mission_time' = mission_time + Scale \div rate
    /\ pc' = "sleep"
    /\ UNCHANGED << rate, baseline, running, socket, orbit_phase, thermal_cycle,
                    telemetry_data, noise, wire, outcome, generated, send_calls,
                    datagrams, ticks, stop_requested, stop_ran, escaped >>

\* self.mission_time += 1.0 / self.rate.  With rate 0 the division raises
\* ZeroDivisionError, which start() does not catch: its finally runs stop()
\* and the exception leaves start().
AdvanceMissionTime ==
    /\ pc = "adv_time"
    /\ IF rate = 0
       THEN /\ escaped' = "ZeroDivisionError"
            /\ running' = FALSE
            /\ socket' = StopSocket
            /\ stop_ran' = TRUE
            /\ pc' = "stopped"
            /\ UNCHANGED mission_time
       ELSE /\ mission_time' = mission_time + Scale \div rate
            /\ pc' = "adv_orbit"
            /\ UNCHANGED << running, socket, stop_ran, escaped >>
    /\ UNCHANGED << rate, baseline, orbit_phase, thermal_cycle, telemetry_data,
                    noise, wire, outcome, generated, send_calls, datagrams,
                    ticks, stop_requested >>

\* Variant of AdvanceOrbitPhase: the increment is divided by the rate.
AdvanceOrbitPhase_PerRate ==
    /\ pc = "adv_orbit"
    /\ orbit_phase' = orbit_phase + ORBIT_STEP \div rate
    /\ pc' = "adv_thermal"
    /\ UNCHANGED << rate, baseline, running, socket, mission_time,
                    thermal_cycle, telemetry_data, noise, wire, outcome,
                    generated, send_calls, datagrams, ticks, stop_requested,
                    stop_ran, escaped >>

\* self.orbit_phase += 0.01
AdvanceOrbitPhase ==
    /\ pc = "adv_orbit"
    /\ orbit_phase' = orbit_phase + ORBIT_STEP
    /\ pc' = "adv_thermal"
    /\ UNCHANGED << rate, baseline, running, socket, mission_time,
                    thermal_cycle, telemetry_data, noise, wire, outcome,
                    generated, send_calls, datagrams, ticks, stop_requested,
                    stop_ran, escaped >>

\* self.thermal_cycle += 0.05
AdvanceThermalCycle ==
    /\ pc = "adv_thermal"
    /\ thermal_cycle' = thermal_cycle + THERMAL_STEP
    /\ pc' = "sleep"
    /\ UNCHANGED << rate, baseline, running, socket, mission_time, orbit_phase,
                    telemetry_data, noise, wire, outcome, generated, send_calls,
                    datagrams, ticks, stop_requested, stop_ran, escaped >>

\* _print_status() and time.sleep(max(0, 1/rate - elapsed)): the tick ends.
Sleep ==
    /\ pc = "sleep"
    /\ ticks' = ticks + 1
    /\ pc' = "loop"
    /\ UNCHANGED << rate, baseline, running, socket, mission_time, orbit_phase,
                    thermal_cycle, telemetry_data, noise, wire, outcome,
                    generated, send_calls, datagrams, stop_requested, stop_ran,
                    escaped >>

\* The while test fails (running was cleared by a direct stop()):
\* _simulation_loop returns and the finally of start() runs stop().
LoopExit ==
    /\ pc = "loop"
    /\ ~running
    /\ socket' = StopSocket
    /\ stop_ran' = TRUE
    /\ pc' = "stopped"
    /\ UNCHANGED << rate, baseline, running, mission_time, orbit_phase,
                    thermal_cycle, telemetry_data, noise, wire, outcome,
                    generated, send_calls, datagrams, ticks, stop_requested,
                    escaped >>

\* Ctrl+C while the main thread is inside the try block: KeyboardInterrupt
\* is raised where the thread stands, caught by start(), and the finally
\* runs stop().
KeyboardInterrupt ==
    /\ pc \in InTick
    /\ escaped' = "KeyboardInterrupt"
    /\ stop_requested' = TRUE
    /\ running' = FALSE
    /\ socket' = StopSocket
    /\ stop_ran' = TRUE
    /\ pc' = "stopped"
    /\ UNCHANGED << rate, baseline, mission_time, orbit_phase, thermal_cycle,
                    telemetry_data, noise, wire, outcome, generated, send_calls,
                    datagrams, ticks >>

\* Ctrl+C while the banner is printed, before the try block: the exception
\* leaves start() and stop() is never run.
InterruptBanner ==
    /\ pc = "banner"
    /\ escaped' = "KeyboardInterrupt"
    /\ stop_requested' = TRUE
    /\ pc' = "aborted"
    /\ UNCHANGED << rate, baseline, running, socket, mission_time, orbit_phase,
                    thermal_cycle, telemetry_data, noise, wire, outcome,
                    generated, send_calls, datagrams, ticks, stop_ran >>

\* stop() called directly (from another thread) while start() is in its
\* loop; the main thread goes on from where it stands.
StopDirect ==
    /\ pc \in InTick
    /\ running
    /\ stop_requested' = TRUE
    /\ running' = FALSE
    /\ socket' = StopSocket
    /\ stop_ran' = TRUE
    /\ UNCHANGED << rate, baseline, mission_time, orbit_phase, thermal_cycle,
                    pc, telemetry_data, noise, wire, outcome, generated,
                    send_calls, datagrams, ticks, escaped >>

Next ==
    \/ Start
    \/ PrintBanner
    \/ GenerateStep
    \/ SendTelemetry
    \/ AdvanceMissionTime
    \/ AdvanceOrbitPhase
    \/ AdvanceThermalCycle
    \/ Sleep
    \/ LoopExit
    \/ KeyboardInterrupt
    \/ InterruptBanner
    \/ StopDirect

Spec == Init /\ [][Next]_vars

\* ------------------------------------------- the encoder on its own
\* Values handed to struct.pack for a format character, inside and outside
\* its range.
TestValues(c) ==
    CASE c = "h" -> {-32769, -32768, -1, 100, 258, 32767, 32768}
      [] c = "H" -> {-1, 1, 258, 65535, 65536}
      [] c = "i" -> {-2147483647, -1, 1, 66051, 2147483647}
      [] c = "I" -> {-1, 1, 66051, 2147483647}
      [] c = "B" -> {-1, 1, 255, 256}
      [] c = "?" -> {TRUE}

\* Samples given to _send_telemetry: all zero, one field set, and generated
\* ones.
TestSamples ==
    {ZeroSample}
    \cup UNION { { [ZeroSample EXCEPT ![PackFormat[i][1]] = v] :
                     v \in TestValues(PackFormat[i][2]) } : i \in DOMAIN PackFormat }
    \cup { GenerateTelemetry(ORBIT_STEP, THERMAL_STEP, Baseline("nominal"), n) :
             n \in NoiseDraws }

\* A started simulator about to call _send_telemetry on a given sample.
InitPack ==
    /\ rate = 1
    /\ baseline = Baseline("nominal")
    /\ running = TRUE
    /\ socket = "open"
    /\ mission_time = 0
    /\ orbit_phase = 0
    /\ thermal_cycle = 0
    /\ pc = "send"
    /\ telemetry_data \in TestSamples
    /\ noise = Quiet
    /\ wire = NoDatagram
    /\ outcome = "none"
    /\ generated = 1
    /\ send_calls = 0
    /\ datagrams = 0
    /\ ticks = 0
    /\ stop_requested = FALSE
    /\ stop_ran = FALSE
    /\ escaped = "none"

NextPack == SendTelemetry

PackSpec == InitPack /\ [][NextPack]_vars

\* ================================================================ claims

\* Counts of completed advances, read off the accumulators.
OrbitAdvances == orbit_phase \div ORBIT_STEP
ThermalAdvances == thermal_cycle \div THERMAL_STEP
TimeAdvances == IF rate = 0 THEN 0 ELSE (mission_time * rate) \div Scale

\* ----------------------------------------------------------------- C1
\* C1: every datagram handed to sendto is exactly 65 bytes long and begins
\* with 0x12 0x06; after a packing failure nothing (in particular no
\* header-only frame) is handed to sendto.
C1_FrameShape ==
    /\ wire # NoDatagram =>
          /\ Len(wire) = 65
          /\ Len(wire) = 2 + TELEMETRY_FRAME_PAYLOAD_SIZE
          /\ wire[1] = 18
          /\ wire[2] = 6
    /\ (pc = "adv_time" /\ PackTelemetry(telemetry_data) = None) =>
          (wire = NoDatagram /\ outcome # "sent")

\* A datagram has been transmitted.
C1_Witness == outcome = "sent" /\ datagrams >= 1 /\ Len(wire) = 65

\* ----------------------------------------------------------------- C2
\* The wire-format table: field, offset in the frame, type.
WireLayout ==
    << <<"icm_gyr_x", 2, "i16">>, <<"icm_gyr_y", 4, "i16">>, <<"icm_gyr_z", 6, "i16">>,
       <<"icm_acc_x", 8, "i16">>, <<"icm_acc_y", 10, "i16">>, <<"icm_acc_z", 12, "i16">>,
       <<"icm_temp", 14, "i16">>,
       <<"mmc_mag_x", 16, "i32">>, <<"mmc_mag_y", 20, "i32">>, <<"mmc_mag_z", 24, "i32">>,
       <<"mmc_temp", 28, "i16">>,
       <<"rdn_serial_dose", 30, "u32">>, <<"rdn_sen1_dose", 34, "u32">>,
       <<"rdn_sen2_dose", 38, "u32">>,
       <<"rdn_serial_intensity", 42, "u32">>, <<"rdn_sen1_intensity", 46, "u32">>,
       <<"rdn_sen2_intensity", 50, "u32">>,
       <<"rdn_temp", 54, "i16">>, <<"rdn_vdd", 56, "i16">>,
       <<"rdn_crystal_ok", 58, "bool">>, <<"rdn_analog_ok", 59, "bool">>,
       <<"encoder_sensor", 60, "u8">>, <<"hall_endstop", 61, "u8">>,
       <<"reflective_endstop", 62, "u8">>,
       <<"light_sensor", 63, "u16">> >>

\* The byte at a frame offset (offsets count from 0).
At(frame, off) == frame[off + 1]

\* Whether the frame holds value v of the given type, little-endian, at off.
Holds(frame, off, type, v) ==
    LET b0 == At(frame, off)
        b1 == At(frame, off + 1)
        b2 == At(frame, off + 2)
        b3 == At(frame, off + 3)
        s(b) == IF b >= 128 THEN b - 256 ELSE b
    IN  CASE type = "i16"  -> v = b0 + 256 * s(b1)
          [] type = "u16"  -> v = b0 + 256 * b1
          [] type = "i32"  -> v = b0 + 256 * b1 + 65536 * b2 + 16777216 * s(b3)
          [] type = "u32"  -> b3 < 128 /\ v = b0 + 256 * b1 + 65536 * b2 + 16777216 * b3
          [] type = "u8"   -> v = b0
          [] type = "bool" -> b0 \in {0, 1} /\ v = (b0 = 1)

\* Whether v lies in the declared width and signedness of the type.
Declared(type, v) ==
    CASE type = "i16"  -> v >= -32768 /\ v <= 32767
      [] type = "u16"  -> v >= 0 /\ v <= 65535
      [] type = "i32"  -> TRUE
      [] type = "u32"  -> v >= 0
      [] type = "u8"   -> v >= 0 /\ v <= 255
      [] type = "bool" -> v \in BOOLEAN

InDeclaredRange(data) ==
    \A i \in DOMAIN WireLayout : Declared(WireLayout[i][3], data[WireLayout[i][1]])

GyroOnlySample == [ZeroSample EXCEPT !.icm_gyr_x = 100]

\* C2: for a sample whose fields lie in their declared ranges, the frame
\* handed to sendto holds every field little-endian at its offset of the
\* wire-format table, so decoding reproduces the sample; the sample with only
\* gyro_x = 100 has 0x64 0x00 at offsets 2 and 3.
C2_RoundTrip ==
    (pc = "adv_time" /\ InDeclaredRange(telemetry_data)) =>
        /\ Len(wire) = 65
        /\ \A i \in DOMAIN WireLayout :
              Holds(wire, WireLayout[i][2], WireLayout[i][3],
                    telemetry_data[WireLayout[i][1]])
        /\ telemetry_data = GyroOnlySample =>
              /\ At(wire, 2) = 100
              /\ At(wire, 3) = 0
              /\ \A off \in 4..64 : At(wire, off) = 0

\* The gyro_x = 100 sample has been encoded.
C2_Witness ==
    /\ pc = "adv_time"
    /\ telemetry_data = GyroOnlySample
    /\ Len(wire) = 65
    /\ At(wire, 2) = 100

\* ----------------------------------------------------------------- C3
\* The three accumulators after m, o and t advances.
AccumulatorsAre(m, o, t) ==
    /\ IF rate = 0 THEN mission_time = 0 /\ m = 0
                   ELSE mission_time * rate = m * Scale
    /\ orbit_phase * 100 = o * Scale
    /\ thermal_cycle * 20 = t * Scale

\* C3: a completed tick adds exactly 1/rate to mission_time, 0.01 to
\* orbit_phase and 0.05 to thermal_cycle, whatever the rate, and nothing else
\* changes them: with n ticks completed they are n/rate, n*0.01 and n*0.05 at
\* every tick boundary, and inside a tick each is at its old or its new value.
C3_TickIncrements ==
    /\ pc \in {"idle", "banner", "loop", "send", "adv_time"} =>
          AccumulatorsAre(ticks, ticks, ticks)
    /\ pc = "adv_orbit" => AccumulatorsAre(ticks + 1, ticks, ticks)
    /\ pc = "adv_thermal" => AccumulatorsAre(ticks + 1, ticks + 1, ticks)
    /\ pc = "sleep" => AccumulatorsAre(ticks + 1, ticks + 1, ticks + 1)
    /\ pc \in {"stopped", "aborted"} =>
          \E m, o, t \in {ticks, ticks + 1} : AccumulatorsAre(m, o, t)

\* Two ticks have completed at 2 Hz.
C3_Witness ==
    /\ pc = "loop"
    /\ ticks = 2
    /\ rate = 2
    /\ mission_time = Scale
    /\ orbit_phase = 200
    /\ thermal_cycle = 1000

\* ----------------------------------------------------------------- C4
\* C4: an encoding or transmission failure is not fatal: unless a stop was
\* requested, the tick it occurs in goes on to advance the state and the
\* simulator stays Running with no exception leaving the loop, and the next
\* tick generates a fresh sample.
C4_FailureNotFatal ==
    (outcome \in {"pack_failed", "send_failed"} /\ ~stop_requested) =>
        /\ running
        /\ escaped = "none"
        /\ pc \in {"adv_time", "adv_orbit", "adv_thermal", "sleep", "loop", "send"}
        /\ pc \in {"sleep", "loop", "send"} =>
              /\ TimeAdvances = send_calls
              /\ OrbitAdvances = send_calls
              /\ ThermalAdvances = send_calls
        /\ pc = "send" => generated = send_calls + 1

\* ----------------------------------------------------------------- C5
\* C5: once stop() has run, running is False and the socket is closed, and
\* no datagram is transmitted from then on.
C5_NoSendAfterStop ==
    /\ [](stop_ran => (~running /\ socket = "closed"))
    /\ [][stop_ran => datagrams' = datagrams]_vars

\* stop() ran in the middle of a tick, after earlier datagrams, and the send
\* of that tick was attempted afterwards.
C5_Witness ==
    /\ stop_ran
    /\ pc = "adv_time"
    /\ outcome = "send_failed"
    /\ datagrams >= 1

\* ----------------------------------------------------------------- C6
\* C6: a sample with a value outside the declared range of its field still
\* has its frame handed to sendto.
C6_OutOfRangeStillSent ==
    (pc = "adv_time" /\ ~InDeclaredRange(telemetry_data)) =>
        (Len(wire) = 65 /\ outcome \in {"sent", "send_failed"})

\* ----------------------------------------------------------------- C7
\* C7: the simulator becomes Stopped only through a stop request; no other
\* exception leaves the loop.
C7_StopsOnlyOnRequest ==
    /\ pc = "stopped" => stop_requested
    /\ escaped \in {"none", "KeyboardInterrupt"}

\* ----------------------------------------------------------------- C8
\* C8 as stated: the sample of the n-th tick is computed from orbit_phase and
\* thermal_cycle after n increments.
C8_AdvancedBeforeSample ==
    pc = "send" =>
        telemetry_data = GenerateTelemetry(generated * 100, generated * 500,
                                           baseline, noise)

\* C8 amended: the sample of the n-th tick is computed from orbit_phase and
\* thermal_cycle after n - 1 increments (the first from 0 and 0), and that
\* sample is the one framed and handed to sendto.
C8_SampleBeforeAdvance ==
    /\ pc = "send" =>
          telemetry_data = GenerateTelemetry((generated - 1) * 100,
                                             (generated - 1) * 500,
                                             baseline, noise)
    /\ (pc = "adv_time" /\ wire # NoDatagram) =>
          wire = Frame(PackTelemetry(
                     GenerateTelemetry((generated - 1) * 100,
                                       (generated - 1) * 500, baseline, noise)))

\* The second tick's sample: magnetometer x is int(-25000 + 5000*sin(0.01)).
C8_Witness ==
    /\ pc = "send"
    /\ generated = 2
    /\ telemetry_data.mmc_mag_x = -24950

\* ----------------------------------------------------------------- C9
\* C9 as stated: in a Stopped state reached by KeyboardInterrupt, send
\* attempts, state advances and generated samples are equal in number.
C9_StopOnlyBetweenTicks ==
    (pc = "stopped" /\ escaped = "KeyboardInterrupt") =>
        /\ generated = send_calls
        /\ send_calls = TimeAdvances \/ rate = 0
        /\ send_calls = OrbitAdvances
        /\ send_calls = ThermalAdvances

\* C9 amended: the interrupt cuts the tick where it stands; in a Stopped
\* state reached by KeyboardInterrupt the counts are ordered
\* thermal <= orbit <= time <= send attempts <= generated <= thermal + 1.
C9_StopCutsTick ==
    (pc = "stopped" /\ escaped = "KeyboardInterrupt") =>
        /\ ThermalAdvances <= OrbitAdvances
        /\ rate # 0 => (OrbitAdvances <= TimeAdvances /\ TimeAdvances <= send_calls)
        /\ OrbitAdvances <= send_calls
        /\ send_calls <= generated
        /\ generated <= ThermalAdvances + 1

\* Stopped by an interrupt that arrived after a send and before the advance.
C9_Witness ==
    /\ pc = "stopped"
    /\ escaped = "KeyboardInterrupt"
    /\ outcome = "sent"
    /\ send_calls = OrbitAdvances + 1

\* ---------------------------------------------------------------- C10
\* A change of the multiplier by 0.1.
MultiplierShift == Fine \div 10

\* The radiation values of the current sample recomputed with only the
\* multiplier changed.
ShiftedRadiation ==
    Radiation(orbit_phase, RadiationMultiplier(orbit_phase) + MultiplierShift,
              baseline, noise)

Doses == {"rdn_serial_dose", "rdn_sen1_dose", "rdn_sen2_dose"}
Intensities == {"rdn_serial_intensity", "rdn_sen1_intensity", "rdn_sen2_intensity"}

\* C10 as stated: with noise fixed, changing only the multiplier changes each
\* of the three doses and each of the three intensities.
C10_SixUseMultiplier ==
    pc = "send" =>
        \A f \in Doses \cup Intensities : telemetry_data[f] # ShiftedRadiation[f]

\* C10 amended: changing only the multiplier changes each of the three doses
\* and none of the three intensities.
C10_DosesUseMultiplier ==
    pc = "send" =>
        /\ \A f \in Doses : telemetry_data[f] # ShiftedRadiation[f]
        /\ \A f \in Intensities : telemetry_data[f] = ShiftedRadiation[f]

\* A sample generated where the multiplier is not 1: the serial dose is
\* int(1000 * (1 + 0.3*sin(0.02))).
C10_Witness ==
    /\ pc = "send"
    /\ generated = 2
    /\ noise = Quiet
    /\ telemetry_data.rdn_serial_dose = 1005
    /\ telemetry_data.rdn_serial_intensity = 100

====
